---------------------------- MODULE Spec2Model ----------------------------
(***************************************************************************)
(* A model of agent.py: the start-up sequence of the module (the asyncio   *)
(* set-up of the flight search agent, the construction of the agents, the  *)
(* session and the runner), the console loop under the __main__ guard with *)
(* its try/finally teardown, and the three local tool functions.           *)
(*                                                                         *)
(* A Python str is modelled as a sequence of one-character strings, so     *)
(* that str.lower() and str.strip() are computed character by character.   *)
(* Two specifications are given: Spec runs the program, ToolSpec calls the *)
(* tool functions on inputs drawn from bounded sets.                       *)
(*                                                                         *)
(* Environment assumptions of Spec: the calls that may raise are the ones  *)
(* into the framework and the console read (MCPToolset.from_server, the    *)
(* agent constructors, create_session, Runner, input, runner.run and the   *)
(* iteration of its events); print and the awaited aclose() return.        *)
(***************************************************************************)
EXTENDS Integers, Sequences, FiniteSets, TLC

VARIABLES
    pc,            \* the statement of agent.py the interpreter is at
    isMain,        \* __name__ == "__main__"
    exc,           \* the exception in flight: the call that raised it, or NoExc
    raised,        \* the calls that have raised an exception so far
    connOpen,      \* the subprocess connection opened by MCPToolset.from_server is open
    flight_exit_stack, \* module global: bound to the exit stack, or Unbound
    setupCalls,    \* number of calls of create_flight_search_agent
    closeCalls,    \* number of calls of flight_exit_stack.aclose()
    created,       \* module globals bound so far, in order of creation
    session,       \* the session returned by create_session, or Unbound
    enteredLoop,   \* the try block of the main loop has been entered
    user_input,    \* the line last returned by input(), or Unbound
    lines,         \* every line input() has returned, in order
    forwarded,     \* every call of runner.run: its keyword arguments, in order
    active,        \* number of runner.run event streams not yet finished
    evYielded,     \* events the current turn's stream has yielded
    evPrinted,     \* events of the current turn printed
    toolCalls,     \* number of tool calls made (ToolSpec)
    lastCall       \* the last tool call: tool, arguments, outcome (ToolSpec)

progVars == <<pc, isMain, exc, raised, connOpen, flight_exit_stack, setupCalls,
              closeCalls, created, session, enteredLoop, user_input, lines, forwarded,
              active, evYielded, evPrinted>>
toolVars == <<toolCalls, lastCall>>
vars == <<pc, isMain, exc, raised, connOpen, flight_exit_stack, setupCalls,
          closeCalls, created, session, enteredLoop, user_input, lines, forwarded,
          active, evYielded, evPrinted, toolCalls, lastCall>>

----------------------------------------------------------------------------
(* Bounds of the model *)

\* lines other than exit/quit that input() returns in one execution
MaxTurns == 2
\* events one runner.run stream yields
MaxEvents == 2
\* tool calls in one behaviour of ToolSpec
MaxCalls == 2

----------------------------------------------------------------------------
(* Python strings: str.lower(), str.strip() *)

UpperLetters == <<"A", "B", "C", "D", "E", "F", "G", "H", "I", "J", "K", "L", "M",
                  "N", "O", "P", "Q", "R", "S", "T", "U", "V", "W", "X", "Y", "Z">>
LowerLetters == <<"a", "b", "c", "d", "e", "f", "g", "h", "i", "j", "k", "l", "m",
                  "n", "o", "p", "q", "r", "s", "t", "u", "v", "w", "x", "y", "z">>

\* the characters str.strip() removes (the ASCII ones a line or an argument can hold)
Whitespace == {" ", "\t", "\n", "\r", "\f"}

lowerChar(c) ==
    IF \E i \in 1..26 : UpperLetters[i] = c
    THEN LowerLetters[CHOOSE i \in 1..26 : UpperLetters[i] = c]
    ELSE c

\* s.lower()
lower(s) == [i \in 1..Len(s) |-> lowerChar(s[i])]

RECURSIVE lstrip(_)
lstrip(s) == IF s # <<>> /\ Head(s) \in Whitespace THEN lstrip(Tail(s)) ELSE s

RECURSIVE rstrip(_)
rstrip(s) ==
    IF s # <<>> /\ s[Len(s)] \in Whitespace THEN rstrip(SubSeq(s, 1, Len(s) - 1)) ELSE s

\* s.strip()
strip(s) == rstrip(lstrip(s))

----------------------------------------------------------------------------
(* String literals of agent.py *)

StrExit == <<"e", "x", "i", "t">>
StrQuit == <<"q", "u", "i", "t">>
StrNewYork == <<"n", "e", "w", " ", "y", "o", "r", "k">>
StrThere == <<"t", "h", "e", "r", "e">>
StrHello == <<"H", "e", "l", "l", "o", ",", " ">>
StrBang == <<"!">>
StrGoodbye == <<"G", "o", "o", "d", "b", "y", "e", "!", " ", "H", "a", "v", "e", " ",
                "a", " ", "g", "r", "e", "a", "t", " ", "d", "a", "y", ".">>
\* the two characters between "25" and "C." are not ASCII; they are named by code point
StrReport == <<"T", "h", "e", " ", "w", "e", "a", "t", "h", "e", "r", " ", "i", "n",
               " ", "N", "e", "w", " ", "Y", "o", "r", "k", " ", "i", "s", " ", "s",
               "u", "n", "n", "y", " ", "a", "t", " ", "2", "5", "U+00C2", "U+00B0",
               "C", ".">>
StrWeatherFor == <<"W", "e", "a", "t", "h", "e", "r", " ", "f", "o", "r", " ", "'">>
StrNotAvailable == <<"'", " ", "n", "o", "t", " ", "a", "v", "a", "i", "l", "a", "b",
                     "l", "e", ".">>
StrHelloCalled == <<"-", "-", "-", " ", "T", "o", "o", "l", ":", " ", "s", "a", "y",
                    "_", "h", "e", "l", "l", "o", " ", "c", "a", "l", "l", "e", "d",
                    " ", "w", "i", "t", "h", " ", "n", "a", "m", "e", ":", " ">>
StrDashes == <<" ", "-", "-", "-">>
StrGoodbyeCalled == <<"-", "-", "-", " ", "T", "o", "o", "l", ":", " ", "s", "a", "y",
                      "_", "g", "o", "o", "d", "b", "y", "e", " ", "c", "a", "l", "l",
                      "e", "d", " ", "-", "-", "-">>

----------------------------------------------------------------------------
(* The local tool functions.  A call's outcome is the value it returns and  *)
(* the lines it printed.  A dict is a record.                               *)

Returns(v, out) == [value |-> v, printed |-> out]

say_helloStripped(args) ==
    LET name == IF args = <<>> THEN StrThere ELSE strip(args[1])
    IN Returns(StrHello \o name \o StrBang, <<StrHelloCalled \o name \o StrDashes>>)

\* def say_hello(name: str = "there"): args is the tuple of positional arguments
say_hello(args) ==
    LET name == IF args = <<>> THEN StrThere ELSE args[1]
    IN Returns(StrHello \o name \o StrBang, <<StrHelloCalled \o name \o StrDashes>>)

say_goodbyeShort == Returns(SubSeq(StrGoodbye, 1, 8), <<StrGoodbyeCalled>>)

say_goodbye == Returns(StrGoodbye, <<StrGoodbyeCalled>>)

get_weatherExact(city) ==
    IF city = StrNewYork
    THEN Returns([status |-> "success", report |-> StrReport], <<>>)
    ELSE Returns([status |-> "error",
                  error_message |-> StrWeatherFor \o city \o StrNotAvailable], <<>>)

get_weatherLoweredMessage(city) ==
    IF lower(city) = StrNewYork
    THEN Returns([status |-> "success", report |-> StrReport], <<>>)
    ELSE Returns([status |-> "error",
                  error_message |-> StrWeatherFor \o lower(city) \o StrNotAvailable],
                 <<>>)

get_weather(city) ==
    IF lower(city) = StrNewYork
    THEN Returns([status |-> "success", report |-> StrReport], <<>>)
    ELSE Returns([status |-> "error",
                  error_message |-> StrWeatherFor \o city \o StrNotAvailable], <<>>)

----------------------------------------------------------------------------
(* Inputs *)

upperChar(c) ==
    IF \E i \in 1..26 : LowerLetters[i] = c
    THEN UpperLetters[CHOOSE i \in 1..26 : LowerLetters[i] = c]
    ELSE c

\* every way of writing w with some of its letters in upper case
CaseVariants(w) ==
    {[i \in 1..Len(w) |-> IF i \in S THEN upperChar(w[i]) ELSE w[i]] :
        S \in SUBSET (1..Len(w))}

\* s is w with some of its letters in upper case
IsCaseVariantOf(s, w) ==
    /\ Len(s) = Len(w)
    /\ \A i \in 1..Len(w) : s[i] = w[i] \/ s[i] = upperChar(w[i])

\* s is a case variant of w between two runs of whitespace
IsPaddedCaseVariantOf(s, w) ==
    \E a \in 0..Len(s) :
        /\ a + Len(w) <= Len(s)
        /\ \A k \in 1..a : s[k] \in Whitespace
        /\ \A k \in (a + Len(w) + 1)..Len(s) : s[k] \in Whitespace
        /\ IsCaseVariantOf(SubSeq(s, a + 1, a + Len(w)), w)

Cities ==
    CaseVariants(StrNewYork)
    \cup {<<>>, <<" ">>, <<" ">> \o StrNewYork, StrNewYork \o <<" ">>,
          <<"\t", "N", "e", "w", " ", "Y", "o", "r", "k", "\n">>,
          <<"n", "e", "w", "y", "o", "r", "k">>,
          <<"n", "e", "w", " ", " ", "y", "o", "r", "k">>,
          <<"n", "e", "w", "_", "y", "o", "r", "k">>,
          <<"n", "e", "w", " ", "y", "o", "r">>,
          StrNewYork \o <<" ", "c", "i", "t", "y">>,
          <<"l", "o", "n", "d", "o", "n">>, <<"L", "o", "n", "d", "o", "n">>,
          <<"P", "A", "R", "I", "S">>}

Names ==
    {<<>>, StrThere, <<"A", "d", "a">>, <<"W", "O", "R", "L", "D">>,
     <<" ", "b", "o", "b", " ">>, <<"O", "'", "N", "e", "i", "l">>,
     <<"{", "n", "a", "m", "e", "}">>, StrNewYork}

\* no tool has been called
NoCall == [tool |-> "none", args |-> <<>>, outcome |-> Returns(<<>>, <<>>)]

----------------------------------------------------------------------------
(* ToolSpec: the framework calls the tool functions *)

CallSayHello ==
    /\ toolCalls < MaxCalls
    /\ \E args \in {<<>>} \cup {<<n>> : n \in Names} :
        lastCall' = [tool |-> "say_hello", args |-> args, outcome |-> say_hello(args)]
    /\ toolCalls' = toolCalls + 1
    /\ UNCHANGED progVars

CallSayGoodbye ==
    /\ toolCalls < MaxCalls
    /\ lastCall' = [tool |-> "say_goodbye", args |-> <<>>, outcome |-> say_goodbye]
    /\ toolCalls' = toolCalls + 1
    /\ UNCHANGED progVars

CallGetWeather ==
    /\ toolCalls < MaxCalls
    /\ \E city \in Cities :
        lastCall' = [tool |-> "get_weather", args |-> <<city>>,
                     outcome |-> get_weather(city)]
    /\ toolCalls' = toolCalls + 1
    /\ UNCHANGED progVars

ToolNext == CallSayHello \/ CallSayGoodbye \/ CallGetWeather

----------------------------------------------------------------------------
(* The program: values *)

NoExc == "none"
Unbound == [unbound |-> TRUE]

\* the ids InMemorySessionService may give the session it creates
SessionIds == {"session-a", "session-b"}

\* lines input() may return
ExitLines ==
    CaseVariants(StrExit) \cup CaseVariants(StrQuit)
    \cup {<<" ">> \o StrExit, StrQuit \o <<" ">>,
          <<"\t", "E", "x", "i", "t", " ", "\r">>, <<" ", " ", "Q", "U", "I", "T">>}

OtherLines ==
    {<<>>, <<" ">>, <<"e", "x", "i">>, <<"e", " ", "x", "i", "t">>,
     StrExit \o <<" ", "n", "o", "w">>, StrQuit \o <<"!">>, <<"H", "i">>}

InputLines == ExitLines \cup OtherLines

\* exceptions input() may raise
InputErrors == {"EOFError", "KeyboardInterrupt"}

\* the module-level statements after the set-up, in file order
Statements == <<"greeting_agent", "farewell_agent", "root_agent", "session_service",
                "session", "runner", "main_guard">>

\* the statement that follows module-level statement stmt
After(stmt) == Statements[(CHOOSE i \in 1..Len(Statements) : Statements[i] = stmt) + 1]

InSeq(x, seq) == \E i \in 1..Len(seq) : seq[i] = x

----------------------------------------------------------------------------
(* The program: control flow of exceptions *)

SwallowSetupFailure(site) ==
    IF site \in {"from_server", "LlmAgent"}
    THEN pc' = "greeting_agent" /\ exc' = exc
    ELSE pc' = "raised" /\ exc' = site

\* an exception raised by a module-level statement outside the try block ends the program
RaiseAtModuleLevel(site) ==
    /\ pc' = "raised"
    /\ exc' = site

RaiseInTryNoFinally(site) ==
    /\ pc' = "raised"
    /\ exc' = site

RaiseInTryContinue(site) ==
    /\ pc' = "input"
    /\ exc' = NoExc

\* an exception raised inside the try block runs the finally clause and then propagates
RaiseInTry(site) ==
    /\ pc' = "finally"
    /\ exc' = site

IsExitCommandNoStrip(line) == lower(line) \in {StrExit, StrQuit}

\* user_input.strip().lower() in ("exit", "quit")
IsExitCommand(line) == lower(strip(line)) \in {StrExit, StrQuit}

\* types.Content(role='user', parts=[types.Part(text=user_input)])
Content(text) == [role |-> "user", text |-> text]

----------------------------------------------------------------------------
(* The program: start-up *)

Init ==
    /\ pc = "create_flight_search_agent"
    /\ isMain \in BOOLEAN
    /\ exc = NoExc
    /\ raised = {}
    /\ connOpen = FALSE
    /\ flight_exit_stack = "unbound"
    /\ setupCalls = 0
    /\ closeCalls = 0
    /\ created = <<>>
    /\ session = Unbound
    /\ enteredLoop = FALSE
    /\ user_input = Unbound
    /\ lines = <<>>
    /\ forwarded = <<>>
    /\ active = 0
    /\ evYielded = 0
    /\ evPrinted = 0
    /\ toolCalls = 0
    /\ lastCall = NoCall

\* asyncio.run(create_flight_search_agent()) up to the awaited MCPToolset.from_server
FromServer ==
    /\ pc = "create_flight_search_agent"
    /\ setupCalls' = setupCalls + 1
    /\ \/ /\ connOpen' = TRUE
          /\ pc' = "LlmAgent"
          /\ UNCHANGED <<exc, raised>>
       \/ /\ RaiseAtModuleLevel("from_server")
          /\ raised' = raised \cup {"from_server"}
          /\ connOpen' = connOpen
    /\ UNCHANGED <<isMain, flight_exit_stack, closeCalls, created, session, enteredLoop,
                   user_input, lines, forwarded, active, evYielded, evPrinted>>
    /\ UNCHANGED toolVars

\* the rest of create_flight_search_agent and the binding of its result
BuildFlightAgent ==
    /\ pc = "LlmAgent"
    /\ \/ /\ flight_exit_stack' = "exit_stack"
          /\ created' = Append(created, "flight_search_agent")
          /\ pc' = "greeting_agent"
          /\ UNCHANGED <<exc, raised>>
       \/ /\ RaiseAtModuleLevel("LlmAgent")
          /\ raised' = raised \cup {"LlmAgent"}
          /\ UNCHANGED <<flight_exit_stack, created>>
    /\ UNCHANGED <<isMain, connOpen, setupCalls, closeCalls, session, enteredLoop,
                   user_input, lines, forwarded, active, evYielded, evPrinted>>
    /\ UNCHANGED toolVars

\* greeting_agent, farewell_agent, root_agent, session_service, runner
Construct ==
    /\ pc \in {"greeting_agent", "farewell_agent", "root_agent", "session_service",
               "runner"}
    /\ \/ /\ created' = Append(created, pc)
          /\ pc' = After(pc)
          /\ UNCHANGED <<exc, raised>>
       \/ /\ RaiseAtModuleLevel(pc)
          /\ raised' = raised \cup {pc}
          /\ created' = created
    /\ UNCHANGED <<isMain, connOpen, flight_exit_stack, setupCalls, closeCalls, session,
                   enteredLoop, user_input, lines, forwarded, active, evYielded,
                   evPrinted>>
    /\ UNCHANGED toolVars

\* session = session_service.create_session(state={}, app_name=..., user_id="user_1")
CreateSession ==
    /\ pc = "session"
    /\ \/ /\ \E id \in SessionIds :
                session' = [id |-> id, user_id |-> "user_1", app_name |-> "multi_agent_app"]
          /\ created' = Append(created, "session")
          /\ pc' = After("session")
          /\ UNCHANGED <<exc, raised>>
       \/ /\ RaiseAtModuleLevel("create_session")
          /\ raised' = raised \cup {"create_session"}
          /\ UNCHANGED <<session, created>>
    /\ UNCHANGED <<isMain, connOpen, flight_exit_stack, setupCalls, closeCalls,
                   enteredLoop, user_input, lines, forwarded, active, evYielded,
                   evPrinted>>
    /\ UNCHANGED toolVars

\* if __name__ == "__main__": print the banner and enter the try block
MainGuard ==
    /\ pc = "main_guard"
    /\ IF isMain
       THEN pc' = "input" /\ enteredLoop' = TRUE
       ELSE pc' = "exited" /\ enteredLoop' = enteredLoop
    /\ UNCHANGED <<isMain, exc, raised, connOpen, flight_exit_stack, setupCalls,
                   closeCalls, created, session, user_input, lines, forwarded, active,
                   evYielded, evPrinted>>
    /\ UNCHANGED toolVars

----------------------------------------------------------------------------
(* The program: the main loop *)

\* user_input = input("User: ")
ReadLine ==
    /\ pc = "input"
    /\ \/ /\ Len(lines) < MaxTurns
          /\ \E line \in InputLines :
                /\ user_input' = line
                /\ lines' = Append(lines, line)
          /\ pc' = "check"
          /\ UNCHANGED <<exc, raised>>
       \/ /\ \E e \in InputErrors : RaiseInTry(e) /\ raised' = raised \cup {e}
          /\ UNCHANGED <<user_input, lines>>
    /\ UNCHANGED <<isMain, connOpen, flight_exit_stack, setupCalls, closeCalls, created,
                   session, enteredLoop, forwarded, active, evYielded, evPrinted>>
    /\ UNCHANGED toolVars

\* if user_input.strip().lower() in ("exit", "quit"): break
CheckExit ==
    /\ pc = "check"
    /\ pc' = IF IsExitCommand(user_input) THEN "finally" ELSE "run"
    /\ UNCHANGED <<isMain, exc, raised, connOpen, flight_exit_stack, setupCalls,
                   closeCalls, created, session, enteredLoop, user_input, lines,
                   forwarded, active, evYielded, evPrinted>>
    /\ UNCHANGED toolVars

RunTurnNoIteration ==
    /\ pc = "run"
    /\ forwarded' = Append(forwarded, [session_id |-> session.id,
                                       user_id |-> session.user_id,
                                       new_message |-> Content(user_input)])
    /\ active' = active + 1
    /\ evYielded' = 0
    /\ evPrinted' = 0
    /\ pc' = "input"
    /\ UNCHANGED <<isMain, exc, raised, connOpen, flight_exit_stack, setupCalls,
                   closeCalls, created, session, enteredLoop, user_input, lines>>
    /\ UNCHANGED toolVars

\* content = ...; events = runner.run(session_id=..., user_id=..., new_message=content)
RunTurn ==
    /\ pc = "run"
    /\ forwarded' = Append(forwarded, [session_id |-> session.id,
                                       user_id |-> session.user_id,
                                       new_message |-> Content(user_input)])
    /\ \/ /\ active' = active + 1
          /\ evYielded' = 0
          /\ evPrinted' = 0
          /\ pc' = "events"
          /\ UNCHANGED <<exc, raised>>
       \/ /\ RaiseInTry("runner.run")
          /\ raised' = raised \cup {"runner.run"}
          /\ UNCHANGED <<active, evYielded, evPrinted>>
    /\ UNCHANGED <<isMain, connOpen, flight_exit_stack, setupCalls, closeCalls, created,
                   session, enteredLoop, user_input, lines>>
    /\ UNCHANGED toolVars

\* for evt in events: the stream yields an event, ends, or raises
NextEvent ==
    /\ pc = "events"
    /\ \/ /\ evYielded < MaxEvents
          /\ evYielded' = evYielded + 1
          /\ pc' = "print"
          /\ UNCHANGED <<exc, raised, active>>
       \/ /\ active' = active - 1
          /\ pc' = "input"
          /\ UNCHANGED <<exc, raised, evYielded>>
       \/ /\ active' = active - 1
          /\ RaiseInTry("events")
          /\ raised' = raised \cup {"events"}
          /\ UNCHANGED evYielded
    /\ UNCHANGED <<isMain, connOpen, flight_exit_stack, setupCalls, closeCalls, created,
                   session, enteredLoop, user_input, lines, forwarded, evPrinted>>
    /\ UNCHANGED toolVars

\* print(evt)
PrintEvent ==
    /\ pc = "print"
    /\ evPrinted' = evPrinted + 1
    /\ pc' = "events"
    /\ UNCHANGED <<isMain, exc, raised, connOpen, flight_exit_stack, setupCalls,
                   closeCalls, created, session, enteredLoop, user_input, lines,
                   forwarded, active, evYielded>>
    /\ UNCHANGED toolVars

\* finally: asyncio.run(flight_exit_stack.aclose()), then the exception in flight propagates
Teardown ==
    /\ pc = "finally"
    /\ closeCalls' = closeCalls + 1
    /\ connOpen' = FALSE
    /\ pc' = IF exc = NoExc THEN "exited" ELSE "raised"
    /\ UNCHANGED <<isMain, exc, raised, flight_exit_stack, setupCalls, created, session,
                   enteredLoop, user_input, lines, forwarded, active, evYielded,
                   evPrinted>>
    /\ UNCHANGED toolVars

Next ==
    \/ FromServer
    \/ BuildFlightAgent
    \/ Construct
    \/ CreateSession
    \/ MainGuard
    \/ ReadLine
    \/ CheckExit
    \/ RunTurn
    \/ NextEvent
    \/ PrintEvent
    \/ Teardown

Spec == Init /\ [][Next]_vars

ToolSpec == Init /\ [][ToolNext]_vars

\* the program has ended: normally, or with an uncaught exception
Ended == pc \in {"exited", "raised"}

----------------------------------------------------------------------------
(* Properties of the main loop *)

\* the claim's reading of an exit line: "exit" or "quit" in any letter case,
\* between any whitespace
ExitLike(line) ==
    IsPaddedCaseVariantOf(line, StrExit) \/ IsPaddedCaseVariantOf(line, StrQuit)

NotExitLike(line) == ~ExitLike(line)

\* the lines the loop has broken on or forwarded
Decided == IF pc \in {"check", "run"} THEN SubSeq(lines, 1, Len(lines) - 1) ELSE lines

\* the texts handed to runner.run, in order
ForwardedTexts == [i \in 1..Len(forwarded) |-> forwarded[i].new_message.text]

\* a call made while running a turn has raised
TurnFailed == raised \cap {"runner.run", "events"} # {}

\* C1: a line ends the loop iff, trimmed and lower-cased, it is "exit" or "quit";
\* such a line is never forwarded; every other line, the empty one included, is
\* forwarded exactly once, as read, and when its turn ends the loop reads again.
C1_ExitIffTrimmedLowerExitOrQuit ==
    /\ [][pc = "check" =>
            IF ExitLike(user_input)
            THEN pc' = "finally" /\ exc' = NoExc /\ forwarded' = forwarded
            ELSE pc' = "run"]_vars
    /\ [][pc = "run" =>
            /\ Len(forwarded') = Len(forwarded) + 1
            /\ forwarded'[Len(forwarded')].new_message = [role |-> "user",
                                                          text |-> user_input]]_vars
    /\ [](ForwardedTexts = SelectSeq(Decided, NotExitLike))
    /\ [](\A i \in 1..(Len(lines) - 1) : NotExitLike(lines[i]))
    /\ [][pc = "events" /\ active' < active /\ raised' = raised => pc' = "input"]_vars
    /\ [][lines' # lines => pc = "input" /\ pc' = "check"]_vars

\* C1 witness: an "exit" line with capitals and padding has ended the loop after an
\* empty line was forwarded
C1_Witness ==
    /\ pc = "finally"
    /\ exc = NoExc
    /\ lines = <<<<>>, <<"\t", "E", "x", "i", "t", " ", "\r">>>>
    /\ ForwardedTexts = <<<<>>>>

\* C2: once the main loop is entered, aclose() is called exactly once, after the last
\* runner call, however the loop ended, and nothing is read or forwarded afterwards.
C2_TeardownExactlyOnce ==
    /\ [](closeCalls <= 1)
    /\ [](enteredLoop /\ Ended => closeCalls = 1)
    /\ [](closeCalls = 1 => enteredLoop /\ Ended /\ active = 0)
    /\ [][closeCalls' # closeCalls => pc = "finally" /\ closeCalls' = closeCalls + 1]_vars
    /\ [][closeCalls >= 1 => lines' = lines /\ forwarded' = forwarded]_vars

\* C2 witness: the loop ended by an exception of input() after a turn, and the
\* teardown has run
C2_Witness ==
    /\ pc = "raised"
    /\ exc = "EOFError"
    /\ Len(forwarded) = 1
    /\ closeCalls = 1

\* C3: create_flight_search_agent runs exactly once and has completed before the root
\* agent, the session and the runner are created and before the first line is read;
\* if it fails the main loop is never entered.
C3_SetupOnceBeforeEverything ==
    /\ setupCalls <= 1
    /\ pc # "create_flight_search_agent" => setupCalls = 1
    /\ (\/ InSeq("root_agent", created)
        \/ InSeq("session", created)
        \/ InSeq("runner", created)
        \/ pc \in {"input", "check", "run", "events", "print", "finally"}
        \/ enteredLoop
        \/ lines # <<>>)
       => /\ setupCalls = 1
          /\ flight_exit_stack = "exit_stack"
          /\ connOpen \/ closeCalls = 1
          /\ Head(created) = "flight_search_agent"
    /\ raised \cap {"from_server", "LlmAgent"} # {}
       => /\ pc = "raised"
          /\ ~enteredLoop
          /\ created = <<>>
          /\ lines = <<>>

\* C3 witness: a line has been read, after the set-up and the three constructions
C3_Witness ==
    /\ pc = "check"
    /\ setupCalls = 1
    /\ InSeq("root_agent", created) /\ InSeq("session", created) /\ InSeq("runner", created)

\* C8: at most one runner call is in progress, every event of a turn is printed
\* before the next line is read, and every turn uses the one session created at
\* start-up.
C8_SynchronousSingleSession ==
    /\ [](active \in {0, 1})
    /\ [](active = 1 <=> pc \in {"events", "print"})
    /\ [](evPrinted <= evYielded /\ evYielded <= evPrinted + 1)
    /\ [](pc = "input" => evPrinted = evYielded)
    /\ [][lines' # lines => active = 0 /\ evPrinted = evYielded]_vars
    /\ [](\A i \in 1..Len(forwarded) :
            /\ forwarded[i].session_id = session.id
            /\ forwarded[i].user_id = session.user_id)
    /\ [][InSeq("session", created) => session' = session]_vars

\* C8 witness: the second turn's stream has ended with all its events printed
C8_Witness ==
    /\ pc = "input"
    /\ Len(forwarded) = 2
    /\ evYielded = MaxEvents
    /\ evPrinted = MaxEvents

C10_EveryConnectionClosed ==
    Ended /\ flight_exit_stack = "exit_stack" => closeCalls >= 1

----------------------------------------------------------------------------
(* Properties of the tool functions *)

\* C4: get_weather returns the success status and the fixed report, and nothing
\* else, for every way of writing "new york" in upper and lower case.
C4_NewYorkAnyCaseSucceeds ==
    lastCall.tool = "get_weather" /\ IsCaseVariantOf(lastCall.args[1], StrNewYork)
    => lastCall.outcome.value = [status |-> "success", report |-> StrReport]

\* C4 witness: get_weather("NEW YORK") returned a success
C4_Witness ==
    /\ lastCall.tool = "get_weather"
    /\ lastCall.args = <<<<"N", "E", "W", " ", "Y", "O", "R", "K">>>>
    /\ lastCall.outcome.value.status = "success"

\* C5: for every other string get_weather returns the error status with a message
\* that names the city as passed, and no report.
C5_OtherCityIsError ==
    lastCall.tool = "get_weather" /\ ~IsCaseVariantOf(lastCall.args[1], StrNewYork)
    => lastCall.outcome.value =
          [status |-> "error",
           error_message |-> StrWeatherFor \o lastCall.args[1] \o StrNotAvailable]

\* C5 witness: get_weather of "New York" between a tab and a newline returned an error
C5_Witness ==
    /\ lastCall.tool = "get_weather"
    /\ lastCall.args = <<<<"\t", "N", "e", "w", " ", "Y", "o", "r", "k", "\n">>>>
    /\ lastCall.outcome.value.status = "error"

\* C6: say_hello(name) returns "Hello, " + name + "!" with name unchanged, and
\* "Hello, there!" when called without an argument.
C6_SayHello ==
    lastCall.tool = "say_hello"
    => lastCall.outcome.value =
          IF lastCall.args = <<>>
          THEN <<"H", "e", "l", "l", "o", ",", " ", "t", "h", "e", "r", "e", "!">>
          ELSE <<"H", "e", "l", "l", "o", ",", " ">> \o lastCall.args[1] \o <<"!">>

\* C6 witness: say_hello() was called without an argument
C6_Witness ==
    /\ lastCall.tool = "say_hello"
    /\ lastCall.args = <<>>
    /\ Len(lastCall.outcome.value) = 13

\* C7: say_goodbye() returns "Goodbye! Have a great day.", whatever was called
\* before it and however often it is called.
C7_SayGoodbye ==
    lastCall.tool = "say_goodbye"
    => lastCall.outcome.value =
          <<"G", "o", "o", "d", "b", "y", "e", "!", " ", "H", "a", "v", "e", " ", "a",
            " ", "g", "r", "e", "a", "t", " ", "d", "a", "y", ".">>

\* C7 witness: say_goodbye() was called after another call
C7_Witness ==
    /\ lastCall.tool = "say_goodbye"
    /\ toolCalls >= 2

=============================================================================
